---------------------------- MODULE Spec2Model ----------------------------
(***************************************************************************)
(* Model of the exam generator back end:                                   *)
(*   backend/app/chains.py       retrieve_docs, get_exam_generator_chain    *)
(*   backend/app/rag_builder.py  build_database                             *)
(*   backend/main.py             the "generate" button handler              *)
(*                                                                         *)
(* Python strings are tuples of one-character strings, so that split,      *)
(* strip and the "in" test are computed the way Python computes them.      *)
(* The string retrieve_docs builds is the sequence of the pieces it        *)
(* appends, one piece per f-string.                                        *)
(***************************************************************************)
EXTENDS Integers, Sequences, FiniteSets, TLC

\* ------------------------------------------------------------------------
\* Bounds of the model
\* ------------------------------------------------------------------------
\* longest list of labels handed to retrieve_docs
MaxLabels == 2

\* longest model output, in tokens
MaxRaw == 5

\* most labels selected in the sidebar when the button is pressed
MaxSelected == 1

\* cells of the question-count table (6 types x 3 difficulties in the page)
NumCells == 2

\* largest count entered in a cell (the page allows 0..10)
MaxCount == 1

\* most files under the knowledge base directory
MaxFiles == 2

\* ------------------------------------------------------------------------
\* Python string helpers
\* ------------------------------------------------------------------------
None == "None"

IsSpace(c) == c = " "

\* "-" in item
Contains(s, c) == \E i \in 1..Len(s) : s[i] = c

RECURSIVE LStrip(_)
LStrip(s) == IF s # <<>> /\ IsSpace(Head(s)) THEN LStrip(Tail(s)) ELSE s

RECURSIVE RStrip(_)
RStrip(s) ==
    IF s # <<>> /\ IsSpace(s[Len(s)]) THEN RStrip(SubSeq(s, 1, Len(s) - 1)) ELSE s

\* str.strip()
Strip(s) == RStrip(LStrip(s))

\* str.split(c): the pieces between every occurrence of the character c
RECURSIVE SplitFrom(_, _, _, _)
SplitFrom(s, c, i, cur) ==
    IF i > Len(s) THEN <<cur>>
    ELSE IF s[i] = c THEN <<cur>> \o SplitFrom(s, c, i + 1, <<>>)
    ELSE SplitFrom(s, c, i + 1, Append(cur, s[i]))

Split(s, c) == SplitFrom(s, c, 1, <<>>)

\* ------------------------------------------------------------------------
\* Inputs
\* ------------------------------------------------------------------------
\* labels in the shapes of CLASSICAL_TEXTS ("<era> - <title>") and the other
\* shapes a caller may pass: no separator, a hyphenated title, a bare hyphen
LabelPool ==
    { <<"a">>,
      <<"e", " ", "-", " ", "a">>,
      <<"e", " ", "-", " ", "c">>,
      <<"e", " ", "-", " ", "a", "-", "b">>,
      <<"a", "-", "b">> }

\* titles a knowledge base file may carry (its base name)
TitlePool == { <<"a">>, <<"b">>, <<"a", "-", "b">> }

\* k of similarity_search
K == 2

\* a title has at most K + 1 chunks, so that the cut at k is exercised
MaxChunks == K + 1

SeqsUpTo(S, n) == UNION { [1..m -> S] : m \in 0..n }

VARIABLES
    \* --- retriever (chains.py retrieve_docs)
    dbExists,        \* os.path.exists("./data/chroma_db")
    store,           \* the index: title -> number of chunks carrying that title
    selected_texts,  \* argument of the last call of retrieve_docs
    raised,          \* positions of the labels whose similarity_search raised
    returned,        \* retrieve_docs has been called and has ended
    retrieveExc,     \* it ended with an exception
    retrieved,       \* value it returned
    queryLog,        \* similarity_search calls issued, in order
    storeOpened,     \* Chroma(persist_directory=...) was constructed
    \* --- generator construction (chains.py get_exam_generator_chain)
    env,             \* the process environment read by os.getenv
    chainState,      \* "none", "built" or "raised"
    llm,             \* the arguments ChatOpenAI was constructed with, or None
    \* --- chain.invoke: the parser stage and its caller (chains.py 117, 135; main.py 152-157)
    raw,             \* the text the model returned, as tokens
    parseState,      \* "none", "returned" or "raised"
    response,        \* what chain.invoke returned
    callerPath,      \* "none", "render" (line 158 on) or "except" (line 204)
    \* --- the "generate" button's handler (main.py lines 119-209)
    multiselect,        \* selected_texts, the labels chosen in the sidebar
    edited_df,          \* the question-count table, cell -> count
    custom_requirements,\* the free-text instruction
    pc,                 \* where the handler stands
    events,             \* the stages started, in order
    failed,             \* the stage whose exception reached line 204, or None
    messages,           \* st.warning / st.error texts shown
    retrieved_context,  \* line 130
    prompt_request,     \* lines 136-148
    model_text,         \* the model's answer inside chain.invoke
    result,             \* chain.invoke's value, line 152
    \* --- the index build (rag_builder.py build_database)
    base_exists,     \* os.path.exists("./data/knowledge_base")
    kb_files,        \* the files os.walk finds there, in its order
    db,              \* ./data/chroma_db: "absent", "old", "partial" or "new"
    bpc,             \* where build_database stands
    documents,       \* the documents loaded so far
    splits           \* number of chunks after the split, -1 before it

retrVars ==
    <<dbExists, store, selected_texts, raised, returned, retrieveExc, retrieved,
      queryLog, storeOpened>>

genVars == <<env, chainState, llm>>

normVars == <<raw, parseState, response, callerPath>>

uiVars == <<multiselect, edited_df, custom_requirements>>

mainVars ==
    <<multiselect, edited_df, custom_requirements, pc, events, failed, messages,
      retrieved_context, prompt_request, model_text, result>>

buildVars == <<base_exists, kb_files, db, bpc, documents, splits>>

vars == <<retrVars, genVars, normVars, mainVars, buildVars>>

notMainVars == <<retrVars, genVars, normVars, buildVars>>

notBuildVars == <<retrVars, genVars, normVars, mainVars>>

\* ------------------------------------------------------------------------
\* chains.py: retrieve_docs
\* ------------------------------------------------------------------------
Warning == [kind |-> "warning", title |-> <<>>, text |-> <<>>]

HitBlock(doc) == [kind |-> "hit", title |-> doc.title, text |-> doc.page_content]

NotFoundBlock(kw) == [kind |-> "notfound", title |-> kw, text |-> <<>>]

ErrorBlock(kw) == [kind |-> "error", title |-> kw, text |-> <<>>]

\* lines 67-70
title_keyword(item) ==
    IF Contains(item, "-") THEN Strip(Split(item, "-")[2]) ELSE item

\* vectorstore.similarity_search(query, k, filter={"title": ...}): the k best
\* chunks among those whose title metadata equals the filter, best first
similarity_search(st, query, k, filter) ==
    LET n == IF filter \in DOMAIN st THEN st[filter] ELSE 0
        m == IF n < k THEN n ELSE k
    IN  [j \in 1..m |-> [title |-> filter, page_content |-> <<filter, j>>]]

\* the hits appended last first
RECURSIVE HitBlocksReversed(_)
HitBlocksReversed(results) ==
    IF results = <<>> THEN <<>>
    ELSE HitBlocksReversed(Tail(results)) \o <<HitBlock(Head(results))>>

\* lines 82-83: one titled block per hit, in the order of the hits
RECURSIVE HitBlocks(_)
HitBlocks(results) ==
    IF results = <<>> THEN <<>>
    ELSE <<HitBlock(Head(results))>> \o HitBlocks(Tail(results))

\* lines 67-88: the loop's body for one label; raises: its query raises
LoopBody(st, item, raises, acc) ==
    LET kw == title_keyword(item)
        q == [query |-> kw, k |-> K, filter |-> kw]
        results == similarity_search(st, kw, K, kw)
        piece == IF raises THEN <<ErrorBlock(kw)>>
                 ELSE IF results # <<>> THEN HitBlocks(results)
                 ELSE <<NotFoundBlock(kw)>>
    IN  [acc EXCEPT !.content = @ \o piece, !.queries = Append(@, q)]

\* lines 66-88: the loop, from label i on; rs are the positions whose query raises
RECURSIVE RetrieveLoop(_, _, _, _, _)
RetrieveLoop(st, labels, rs, i, acc) ==
    IF i > Len(labels) THEN acc
    ELSE RetrieveLoop(st, labels, rs, i + 1, LoopBody(st, labels[i], i \in rs, acc))

\* the loop without the try/except of lines 74 and 86: the first raising query
\* leaves retrieve_docs as an exception
RECURSIVE RetrieveLoopNoCatch(_, _, _, _, _)
RetrieveLoopNoCatch(st, labels, rs, i, acc) ==
    IF i > Len(labels) THEN acc
    ELSE IF i \in rs
    THEN [exc |-> TRUE, content |-> <<>>, opened |-> TRUE,
          queries |-> LoopBody(st, labels[i], TRUE, acc).queries]
    ELSE RetrieveLoopNoCatch(st, labels, rs, i + 1, LoopBody(st, labels[i], FALSE, acc))

\* retrieve_docs without the test of line 53
retrieve_docs_unguarded(exists, opens, st, labels, rs) ==
    IF ~opens
    THEN [exc |-> TRUE, content |-> <<>>, queries |-> <<>>, opened |-> FALSE]
    ELSE RetrieveLoop(st, labels, rs, 1,
            [exc |-> FALSE, content |-> <<>>, queries |-> <<>>, opened |-> TRUE])

\* retrieve_docs with the query of line 75 outside any try
retrieve_docs_nocatch(exists, opens, st, labels, rs) ==
    IF ~exists
    THEN [exc |-> FALSE, content |-> <<Warning>>, queries |-> <<>>, opened |-> FALSE]
    ELSE IF ~opens
    THEN [exc |-> TRUE, content |-> <<>>, queries |-> <<>>, opened |-> FALSE]
    ELSE RetrieveLoopNoCatch(st, labels, rs, 1,
            [exc |-> FALSE, content |-> <<>>, queries |-> <<>>, opened |-> TRUE])

\* lines 50-90. opens: HuggingFaceEmbeddings(...) and Chroma(...) of lines 57-62
\* return; they stand outside the try, so their exception leaves the call
retrieve_docs(exists, opens, st, labels, rs) ==
    IF ~exists
    THEN [exc |-> FALSE, content |-> <<Warning>>, queries |-> <<>>, opened |-> FALSE]
    ELSE IF ~opens
    THEN [exc |-> TRUE, content |-> <<>>, queries |-> <<>>, opened |-> FALSE]
    ELSE RetrieveLoop(st, labels, rs, 1,
            [exc |-> FALSE, content |-> <<>>, queries |-> <<>>, opened |-> TRUE])

\* one call retrieve_docs(labels). The function keeps nothing between calls,
\* so one call per behaviour shows them all. Whether the store opens and which
\* queries raise is the environment's choice, where the code gets that far
Retrieve ==
    \E labels \in SeqsUpTo(LabelPool, MaxLabels) :
      \E opens \in (IF dbExists THEN BOOLEAN ELSE {TRUE}) :
        \E rs \in (IF dbExists /\ opens THEN SUBSET (1..Len(labels)) ELSE {{}}) :
          LET r == retrieve_docs(dbExists, opens, store, labels, rs)
          IN  /\ ~returned
              /\ returned' = TRUE
              /\ selected_texts' = labels
              /\ raised' = rs
              /\ retrieveExc' = r.exc
              /\ retrieved' = r.content
              /\ queryLog' = r.queries
              /\ storeOpened' = r.opened
              /\ UNCHANGED <<dbExists, store>>
              /\ UNCHANGED <<genVars, normVars, mainVars, buildVars>>

\* ------------------------------------------------------------------------
\* chains.py: get_exam_generator_chain, the credentials (lines 93-115)
\* ------------------------------------------------------------------------
\* os.getenv gives None for an unset variable and may give the empty string
EnvValues(v) == {None, "", v}

Environments ==
    [OPENROUTER_API_KEY : EnvValues("sk-or"),
     OPENROUTER_BASE_URL : EnvValues("https://openrouter"),
     OPENROUTER_MODEL : EnvValues("some-model"),
     OPENAI_API_KEY : EnvValues("sk-openai")]

\* Python truth of an Optional[str]
Truthy(x) == x # None /\ x # ""

ValueError == [raised |-> TRUE, llm |-> None]

ChatOpenAI(model, api_key, base_url) ==
    [raised |-> FALSE,
     llm |-> [model |-> model, api_key |-> api_key, base_url |-> base_url,
              temperature |-> "0.7"]]

\* the fallback of lines 100-104 keeping the OpenRouter base URL
get_exam_generator_chain_keeps_url(e) ==
    LET api_key == IF Truthy(e.OPENROUTER_API_KEY) THEN e.OPENROUTER_API_KEY
                   ELSE e.OPENAI_API_KEY
    IN  IF ~Truthy(api_key) THEN ValueError
        ELSE ChatOpenAI(IF Truthy(e.OPENROUTER_MODEL) THEN e.OPENROUTER_MODEL ELSE "gpt-4o",
                        api_key, e.OPENROUTER_BASE_URL)

\* lines 95-115
get_exam_generator_chain(e) ==
    LET api_key0 == e.OPENROUTER_API_KEY
        base_url0 == e.OPENROUTER_BASE_URL
        model_name == e.OPENROUTER_MODEL
        api_key == IF ~Truthy(api_key0) THEN e.OPENAI_API_KEY ELSE api_key0
        base_url == IF ~Truthy(api_key0) /\ ~Truthy(e.OPENROUTER_API_KEY)
                    THEN None ELSE base_url0
    IN  IF ~Truthy(api_key) THEN ValueError
        ELSE ChatOpenAI(IF Truthy(model_name) THEN model_name ELSE "gpt-4o",
                        api_key, base_url)

\* one call get_exam_generator_chain()
Construct ==
    LET r == get_exam_generator_chain(env)
    IN  /\ chainState = "none"
        /\ chainState' = (IF r.raised THEN "raised" ELSE "built")
        /\ llm' = r.llm
        /\ UNCHANGED env
        /\ UNCHANGED <<retrVars, normVars, mainVars, buildVars>>

\* ------------------------------------------------------------------------
\* chains.py line 117 and 135: the chain's last stage, JsonOutputParser
\* (langchain_core: JsonOutputParser.parse_result -> parse_json_markdown ->
\* _parse_json -> parse_partial_json), on the model's text
\* ------------------------------------------------------------------------
\* A text is a sequence of tokens: "w" a run of prose, "{" and "}" the braces
\* of a JSON object (its keys and scalar values left out), "F" a ``` fence,
\* "J" a ```json fence.
Tokens == {"w", "{", "}", "F", "J"}

IsFence(t) == t \in {"F", "J"}

\* nesting depth after each token; -1 once a "}" closes nothing
RECURSIVE Depth(_, _, _)
Depth(s, i, d) ==
    IF d < 0 \/ i > Len(s) THEN d
    ELSE Depth(s, i + 1, IF s[i] = "{" THEN d + 1 ELSE IF s[i] = "}" THEN d - 1 ELSE d)

\* json.loads(s) returns: s is one object, braces only, closed by its last token
JsonLoads(s) ==
    /\ s # <<>>
    /\ \A i \in 1..Len(s) : s[i] \in {"{", "}"}
    /\ Depth(s, 1, 0) = 0
    /\ \A i \in 1..(Len(s) - 1) : Depth(SubSeq(s, 1, i), 1, 0) > 0

Closers(d) == [i \in 1..d |-> "}"]

Parsed(v) == [kind |-> "object", value |-> v]

ReturnedNone == [kind |-> "None", value |-> <<>>]

JSONDecodeError == [kind |-> "JSONDecodeError", value |-> <<>>]

\* parse_partial_json's last loop: the longest prefix that loads once the
\* open braces of the whole text are closed
RECURSIVE LongestLoadable(_, _, _)
LongestLoadable(s, n, d) ==
    IF n = 0 THEN JSONDecodeError
    ELSE IF JsonLoads(SubSeq(s, 1, n) \o Closers(d)) THEN Parsed(SubSeq(s, 1, n) \o Closers(d))
    ELSE LongestLoadable(s, n - 1, d)

\* parse_partial_json(s)
parse_partial_json(s) ==
    IF JsonLoads(s) THEN Parsed(s)
    ELSE IF Depth(s, 1, 0) < 0 THEN ReturnedNone
    ELSE LongestLoadable(s, Len(s), Depth(s, 1, 0))

\* str.strip(" \n\r\t`"): fences fall off both ends; of a leading ```json the
\* word json stays, as prose
RECURSIVE LStripTicks(_)
LStripTicks(s) ==
    IF s = <<>> THEN s
    ELSE IF Head(s) = "F" THEN LStripTicks(Tail(s))
    ELSE IF Head(s) = "J" THEN <<"w">> \o Tail(s)
    ELSE s

RECURSIVE RStripTicks(_)
RStripTicks(s) ==
    IF s # <<>> /\ s[Len(s)] = "F" THEN RStripTicks(SubSeq(s, 1, Len(s) - 1)) ELSE s

\* _parse_json(json_str)
ParseJson(s) == parse_partial_json(RStripTicks(LStripTicks(s)))

\* re.search("```(json)?(.*)", DOTALL).group(2): all that follows the first
\* fence, or the text itself without a fence
RECURSIVE AfterFirstFence(_, _)
AfterFirstFence(s, i) ==
    IF i > Len(s) THEN s
    ELSE IF IsFence(s[i]) THEN SubSeq(s, i + 1, Len(s))
    ELSE AfterFirstFence(s, i + 1)

\* parse_json_markdown(text)
parse_json_markdown(text) ==
    IF ParseJson(text) # JSONDecodeError THEN ParseJson(text)
    ELSE ParseJson(AfterFirstFence(text, 1))

\* JsonOutputParser.parse_result(text): JSONDecodeError leaves it as
\* OutputParserException
JsonOutputParser(text) ==
    LET r == parse_json_markdown(text)
    IN  IF r = JSONDecodeError THEN [raised |-> TRUE, value |-> ReturnedNone]
        ELSE [raised |-> FALSE, value |-> r]

\* main.py lines 152-157 with the model's answer in hand: the parser runs, and
\* response.get(...) of line 157 needs a dict; an exception of either goes to
\* line 204
InvokeParser ==
    LET r == JsonOutputParser(raw)
    IN  /\ parseState = "none"
        /\ parseState' = (IF r.raised THEN "raised" ELSE "returned")
        /\ response' = r.value
        /\ callerPath' = (IF r.raised \/ r.value.kind = "None" THEN "except" ELSE "render")
        /\ UNCHANGED raw
        /\ UNCHANGED <<retrVars, genVars, mainVars, buildVars>>

\* ------------------------------------------------------------------------
\* main.py: the "generate" button's handler, lines 119-209
\* ------------------------------------------------------------------------
\* texts the text area may hold: empty, blank, and two with a letter
CustomPool == { <<>>, <<" ">>, <<" ", " ">>, <<"x">>, <<" ", "x">> }

\* an index that holds two chunks titled "a" and four titled "c"
SampleStore == [t \in TitlePool \cup {<<"c">>} |->
                    IF t = <<"a">> THEN 2 ELSE IF t = <<"c">> THEN K + 2 ELSE 0]

\* answers of the model: prose, an object, a stray closing brace, a fenced object
ModelTexts == { <<"w">>, <<"{", "}">>, <<"}">>, <<"J", "{", "}", "F">> }

\* exceptions of the model call: the provider's 401 and 402, and any other
ProviderErrors == {"401", "402", "timeout"}

RECURSIVE SumCells(_, _)
SumCells(df, n) == IF n = 0 THEN 0 ELSE SumCells(df, n - 1) + df[n]

\* line 57: edited_df.values.sum()
total_questions(df) == SumCells(df, NumCells)

\* lines 108-116: one clause per cell whose count is positive
RECURSIVE ReqList(_, _)
ReqList(df, n) ==
    IF n = 0 THEN <<>>
    ELSE ReqList(df, n - 1) \o (IF df[n] > 0 THEN <<[cell |-> n, count |-> df[n]]>> ELSE <<>>)

parse_requirements_to_string(df) == ReqList(df, NumCells)

\* the tests of lines 120 and 122 with "or" for "and"
RejectionEitherEmpty(sel, df, custom) ==
    IF sel = <<>> THEN "select at least one text"
    ELSE IF total_questions(df) = 0 \/ Strip(custom) = <<>>
    THEN "set counts or enter requirements"
    ELSE None

\* lines 120-123: the warning shown, or None when the submission is accepted
Rejection(sel, df, custom) ==
    IF sel = <<>> THEN "select at least one text"
    ELSE IF total_questions(df) = 0 /\ Strip(custom) = <<>>
    THEN "set counts or enter requirements"
    ELSE None

\* the statements in the order retrieval after the model call
StageAfterSwapped(stage) ==
    CASE stage = "construct" -> "assemble"
      [] stage = "assemble" -> "generate"
      [] stage = "generate" -> "retrieve"
      [] stage = "retrieve" -> "normalize"
      [] stage = "normalize" -> "render"
      [] stage = "render" -> "done"

\* lines 126-157: the statements of the try block, one after the other
StageAfter(stage) ==
    CASE stage = "construct" -> "retrieve"
      [] stage = "retrieve" -> "assemble"
      [] stage = "assemble" -> "generate"
      [] stage = "generate" -> "normalize"
      [] stage = "normalize" -> "render"
      [] stage = "render" -> "done"

\* lines 204-209: what the except clause shows for the exception text e
ErrorMessages(e) ==
    <<[text |-> "error", detail |-> e]>> \o
    (IF e = "401" THEN <<[text |-> "hint", detail |-> "API key invalid"]>>
     ELSE IF e = "402" THEN <<[text |-> "hint", detail |-> "quota exhausted"]>>
     ELSE <<>>)

NoPrompt == [context |-> <<>>, scope |-> <<>>, structure |-> <<>>, custom |-> <<>>]

\* the stage returns: the next statement runs
Proceed(stage) ==
    /\ pc' = StageAfter(stage)
    /\ events' = Append(events, stage)
    /\ UNCHANGED <<failed, messages>>

\* the stage raises: lines 204-209 show the error and the run ends
Fail(stage, e) ==
    /\ pc' = "error"
    /\ events' = Append(events, stage)
    /\ failed' = stage
    /\ messages' = messages \o ErrorMessages(e)

\* lines 119-124: the button is pressed
PressButton ==
    LET w == Rejection(multiselect, edited_df, custom_requirements)
    IN  /\ pc = "idle"
        /\ pc' = (IF w # None THEN "warned" ELSE "construct")
        /\ messages' = (IF w # None THEN <<[text |-> "warning", detail |-> w]>> ELSE <<>>)
        /\ UNCHANGED <<uiVars, events, failed, retrieved_context, prompt_request,
                       model_text, result>>
        /\ UNCHANGED notMainVars

\* line 126
StageConstruct ==
    /\ pc = "construct"
    /\ \E e \in Environments :
          IF get_exam_generator_chain(e).raised
          THEN Fail("construct", "no API key")
          ELSE Proceed("construct")
    /\ UNCHANGED <<uiVars, retrieved_context, prompt_request, model_text, result>>
    /\ UNCHANGED notMainVars

\* lines 129-130
StageRetrieve ==
    /\ pc = "retrieve"
    /\ \E exists \in BOOLEAN, opens \in BOOLEAN :
        \E rs \in SUBSET (1..Len(multiselect)) :
          LET r == retrieve_docs(exists, opens, SampleStore, multiselect, rs)
          IN  IF r.exc
              THEN Fail("retrieve", "embedding") /\ UNCHANGED retrieved_context
              ELSE Proceed("retrieve") /\ retrieved_context' = r.content
    /\ UNCHANGED <<uiVars, prompt_request, model_text, result>>
    /\ UNCHANGED notMainVars

\* lines 133-148
StageAssemble ==
    /\ pc = "assemble"
    /\ prompt_request' =
          [context |-> retrieved_context,
           scope |-> multiselect,
           structure |-> parse_requirements_to_string(edited_df),
           custom |-> IF custom_requirements # <<>> THEN custom_requirements ELSE <<"n", "o", "n", "e">>]
    /\ Proceed("assemble")
    /\ UNCHANGED <<uiVars, retrieved_context, model_text, result>>
    /\ UNCHANGED notMainVars

\* line 152, chain.invoke: the prompt and the model call
StageGenerate ==
    /\ pc = "generate"
    /\ \/ \E t \in ModelTexts : model_text' = t /\ Proceed("generate")
       \/ \E e \in ProviderErrors : Fail("generate", e) /\ UNCHANGED model_text
    /\ UNCHANGED <<uiVars, retrieved_context, prompt_request, result>>
    /\ UNCHANGED notMainVars

\* line 152, chain.invoke: the parser on the model's text
StageNormalize ==
    /\ pc = "normalize"
    /\ LET r == JsonOutputParser(model_text)
       IN  IF r.raised
           THEN Fail("normalize", "Invalid json output") /\ UNCHANGED result
           ELSE Proceed("normalize") /\ result' = r.value
    /\ UNCHANGED <<uiVars, retrieved_context, prompt_request, model_text>>
    /\ UNCHANGED notMainVars

\* lines 157-202: response.get(...) and the preview
StageRender ==
    /\ pc = "render"
    /\ IF result.kind = "None"
       THEN Fail("render", "'NoneType' object has no attribute 'get'")
       ELSE Proceed("render")
    /\ UNCHANGED <<uiVars, retrieved_context, prompt_request, model_text, result>>
    /\ UNCHANGED notMainVars

NextMain ==
    \/ PressButton
    \/ StageConstruct
    \/ StageRetrieve
    \/ StageAssemble
    \/ StageGenerate
    \/ StageNormalize
    \/ StageRender

\* ------------------------------------------------------------------------
\* rag_builder.py: build_database, lines 12-80
\* ------------------------------------------------------------------------
\* a file: its extension, whether TextLoader reads it, and the chunks the
\* splitter makes of it
FileKinds == [ext : {"md", "txt", "py"}, loads : BOOLEAN, chunks : 0..1]

\* lines 25-45: the documents of the .md and .txt files that load
RECURSIVE LoadAll(_)
LoadAll(files) ==
    IF files = <<>> THEN <<>>
    ELSE (IF Head(files).ext \in {"md", "txt"} /\ Head(files).loads
          THEN <<Head(files)>> ELSE <<>>) \o LoadAll(Tail(files))

RECURSIVE CountChunks(_)
CountChunks(docs) ==
    IF docs = <<>> THEN 0 ELSE Head(docs).chunks + CountChunks(Tail(docs))

\* the build going on without the test of line 47
AfterScanUnchecked(docs) == "split"

\* lines 47-49: no document, no build
AfterScan(docs) == IF docs = <<>> THEN "done" ELSE "split"

\* lines 13-20
BuildStart ==
    /\ bpc = "start"
    /\ bpc' = (IF ~base_exists THEN "done" ELSE "scan")
    /\ UNCHANGED <<base_exists, kb_files, db, documents, splits>>
    /\ UNCHANGED notBuildVars

\* lines 25-49
BuildScan ==
    /\ bpc = "scan"
    /\ documents' = LoadAll(kb_files)
    /\ bpc' = AfterScan(documents')
    /\ UNCHANGED <<base_exists, kb_files, db, splits>>
    /\ UNCHANGED notBuildVars

\* lines 52-58
BuildSplit ==
    /\ bpc = "split"
    /\ splits' = CountChunks(documents)
    /\ bpc' = "clean"
    /\ UNCHANGED <<base_exists, kb_files, db, documents>>
    /\ UNCHANGED notBuildVars

\* lines 61-67: shutil.rmtree removes the directory, or raises having removed
\* nothing or a part of it
BuildClean ==
    /\ bpc = "clean"
    /\ IF db = "absent"
       THEN bpc' = "create" /\ db' = db
       ELSE \/ bpc' = "create" /\ db' = "absent"
            \/ bpc' = "done" /\ db' \in {db, "partial"}
    /\ UNCHANGED <<base_exists, kb_files, documents, splits>>
    /\ UNCHANGED notBuildVars

\* lines 73-80: the embedding model is loaded and the index written; an
\* exception of either ends the script, the directory written in part or not
\* at all
BuildCreate ==
    /\ bpc = "create"
    /\ \/ bpc' = "done" /\ db' = "new"
       \/ bpc' = "crashed" /\ db' \in {db, "partial"}
    /\ UNCHANGED <<base_exists, kb_files, documents, splits>>
    /\ UNCHANGED notBuildVars

NextBuild == BuildStart \/ BuildScan \/ BuildSplit \/ BuildClean \/ BuildCreate

\* ------------------------------------------------------------------------
\* Specifications
\* ------------------------------------------------------------------------
\* the store as it is on disk, before retrieve_docs is called
InitRetriever ==
    /\ dbExists \in BOOLEAN
    /\ store \in [TitlePool -> 0..MaxChunks]
    /\ selected_texts = <<>>
    /\ raised = {}
    /\ returned = FALSE
    /\ retrieveExc = FALSE
    /\ retrieved = <<>>
    /\ queryLog = <<>>
    /\ storeOpened = FALSE
    /\ env = [OPENROUTER_API_KEY |-> None, OPENROUTER_BASE_URL |-> None,
              OPENROUTER_MODEL |-> None, OPENAI_API_KEY |-> None]
    /\ chainState = "none"
    /\ llm = None
    /\ raw = <<>>
    /\ parseState = "none"
    /\ response = ReturnedNone
    /\ callerPath = "none"
    /\ multiselect = <<>>
    /\ edited_df = [c \in 1..NumCells |-> 0]
    /\ custom_requirements = <<>>
    /\ pc = "idle"
    /\ events = <<>>
    /\ failed = None
    /\ messages = <<>>
    /\ retrieved_context = <<>>
    /\ prompt_request = NoPrompt
    /\ model_text = <<>>
    /\ result = ReturnedNone
    /\ base_exists = FALSE
    /\ kb_files = <<>>
    /\ db = "absent"
    /\ bpc = "start"
    /\ documents = <<>>
    /\ splits = -1

\* the environment as it is set, before get_exam_generator_chain is called
InitGenerator ==
    /\ env \in Environments
    /\ chainState = "none"
    /\ llm = None
    /\ dbExists = FALSE
    /\ store = [t \in TitlePool |-> 0]
    /\ selected_texts = <<>>
    /\ raised = {}
    /\ returned = FALSE
    /\ retrieveExc = FALSE
    /\ retrieved = <<>>
    /\ queryLog = <<>>
    /\ storeOpened = FALSE
    /\ raw = <<>>
    /\ parseState = "none"
    /\ response = ReturnedNone
    /\ callerPath = "none"
    /\ multiselect = <<>>
    /\ edited_df = [c \in 1..NumCells |-> 0]
    /\ custom_requirements = <<>>
    /\ pc = "idle"
    /\ events = <<>>
    /\ failed = None
    /\ messages = <<>>
    /\ retrieved_context = <<>>
    /\ prompt_request = NoPrompt
    /\ model_text = <<>>
    /\ result = ReturnedNone
    /\ base_exists = FALSE
    /\ kb_files = <<>>
    /\ db = "absent"
    /\ bpc = "start"
    /\ documents = <<>>
    /\ splits = -1

\* the model has answered; the parser has not run yet
InitNormalizer ==
    /\ raw \in SeqsUpTo(Tokens, MaxRaw)
    /\ parseState = "none"
    /\ response = ReturnedNone
    /\ callerPath = "none"
    /\ dbExists = FALSE
    /\ store = [t \in TitlePool |-> 0]
    /\ selected_texts = <<>>
    /\ raised = {}
    /\ returned = FALSE
    /\ retrieveExc = FALSE
    /\ retrieved = <<>>
    /\ queryLog = <<>>
    /\ storeOpened = FALSE
    /\ env = [OPENROUTER_API_KEY |-> None, OPENROUTER_BASE_URL |-> None,
              OPENROUTER_MODEL |-> None, OPENAI_API_KEY |-> None]
    /\ chainState = "none"
    /\ llm = None
    /\ multiselect = <<>>
    /\ edited_df = [c \in 1..NumCells |-> 0]
    /\ custom_requirements = <<>>
    /\ pc = "idle"
    /\ events = <<>>
    /\ failed = None
    /\ messages = <<>>
    /\ retrieved_context = <<>>
    /\ prompt_request = NoPrompt
    /\ model_text = <<>>
    /\ result = ReturnedNone
    /\ base_exists = FALSE
    /\ kb_files = <<>>
    /\ db = "absent"
    /\ bpc = "start"
    /\ documents = <<>>
    /\ splits = -1

\* the page as the user has filled it in, before the button is pressed
InitMain ==
    /\ multiselect \in SeqsUpTo(LabelPool, MaxSelected)
    /\ edited_df \in [1..NumCells -> 0..MaxCount]
    /\ custom_requirements \in CustomPool
    /\ pc = "idle"
    /\ events = <<>>
    /\ failed = None
    /\ messages = <<>>
    /\ retrieved_context = <<>>
    /\ prompt_request = NoPrompt
    /\ model_text = <<>>
    /\ result = ReturnedNone
    /\ dbExists = FALSE
    /\ store = [t \in TitlePool |-> 0]
    /\ selected_texts = <<>>
    /\ raised = {}
    /\ returned = FALSE
    /\ retrieveExc = FALSE
    /\ retrieved = <<>>
    /\ queryLog = <<>>
    /\ storeOpened = FALSE
    /\ env = [OPENROUTER_API_KEY |-> None, OPENROUTER_BASE_URL |-> None,
              OPENROUTER_MODEL |-> None, OPENAI_API_KEY |-> None]
    /\ chainState = "none"
    /\ llm = None
    /\ raw = <<>>
    /\ parseState = "none"
    /\ response = ReturnedNone
    /\ callerPath = "none"
    /\ base_exists = FALSE
    /\ kb_files = <<>>
    /\ db = "absent"
    /\ bpc = "start"
    /\ documents = <<>>
    /\ splits = -1

\* the knowledge base and the index on disk, before build_database is called
InitBuild ==
    /\ base_exists \in BOOLEAN
    /\ kb_files \in SeqsUpTo(FileKinds, MaxFiles)
    /\ db \in {"absent", "old"}
    /\ bpc = "start"
    /\ documents = <<>>
    /\ splits = -1
    /\ dbExists = FALSE
    /\ store = [t \in TitlePool |-> 0]
    /\ selected_texts = <<>>
    /\ raised = {}
    /\ returned = FALSE
    /\ retrieveExc = FALSE
    /\ retrieved = <<>>
    /\ queryLog = <<>>
    /\ storeOpened = FALSE
    /\ env = [OPENROUTER_API_KEY |-> None, OPENROUTER_BASE_URL |-> None,
              OPENROUTER_MODEL |-> None, OPENAI_API_KEY |-> None]
    /\ chainState = "none"
    /\ llm = None
    /\ raw = <<>>
    /\ parseState = "none"
    /\ response = ReturnedNone
    /\ callerPath = "none"
    /\ multiselect = <<>>
    /\ edited_df = [c \in 1..NumCells |-> 0]
    /\ custom_requirements = <<>>
    /\ pc = "idle"
    /\ events = <<>>
    /\ failed = None
    /\ messages = <<>>
    /\ retrieved_context = <<>>
    /\ prompt_request = NoPrompt
    /\ model_text = <<>>
    /\ result = ReturnedNone

NextRetriever == Retrieve

SpecRetriever == InitRetriever /\ [][NextRetriever]_vars

NextGenerator == Construct

SpecGenerator == InitGenerator /\ [][NextGenerator]_vars

NextNormalizer == InvokeParser

SpecNormalizer == InitNormalizer /\ [][NextNormalizer]_vars

SpecMain == InitMain /\ [][NextMain]_vars

SpecBuild == InitBuild /\ [][NextBuild]_vars

\* ------------------------------------------------------------------------
\* Claims on the retriever
\* ------------------------------------------------------------------------
Completed == returned /\ dbExists /\ ~retrieveExc /\ storeOpened

RECURSIVE ConcatSegs(_, _)
ConcatSegs(seg, n) == IF n = 0 THEN <<>> ELSE ConcatSegs(seg, n - 1) \o seg[n]

\* C1: when the store's path does not exist, retrieve_docs returns the one
\* warning string whatever the labels are, opens no store and issues no query.
C1_AbsentStoreWarns ==
    (returned /\ ~dbExists) =>
        /\ ~retrieveExc
        /\ retrieved = <<Warning>>
        /\ queryLog = <<>>
        /\ ~storeOpened

C1_Witness == returned /\ ~dbExists /\ Len(selected_texts) >= 2

\* what a label contributes when its query does not raise: its hits as titled
\* blocks in the order returned, or the not-found placeholder
CleanSegment(i) ==
    LET kw == title_keyword(selected_texts[i])
        n == IF kw \in DOMAIN store THEN store[kw] ELSE 0
    IN  IF n = 0 THEN <<NotFoundBlock(kw)>>
        ELSE [j \in 1..(IF n < K THEN n ELSE K) |->
                [kind |-> "hit", title |-> kw, text |-> <<kw, j>>]]

\* C2: with the store present, whichever labels' queries raise, retrieve_docs
\* does not raise, every label is queried, each raising label contributes one
\* error placeholder and every other label contributes exactly what it
\* contributes when nothing raises.
C2_RaisingLabelsIsolated ==
    (returned /\ dbExists /\ storeOpened) =>
        /\ ~retrieveExc
        /\ Len(queryLog) = Len(selected_texts)
        /\ retrieved =
             ConcatSegs([i \in 1..Len(selected_texts) |->
                            IF i \in raised
                            THEN <<ErrorBlock(title_keyword(selected_texts[i]))>>
                            ELSE CleanSegment(i)],
                        Len(selected_texts))

\* a raising label followed by a label that has hits
C2_Witness ==
    /\ Completed
    /\ Len(selected_texts) >= 2
    /\ 1 \in raised
    /\ 2 \notin raised
    /\ retrieved[Len(retrieved)].kind = "hit"

Unmatched == { i \in 1..Len(selected_texts) : Len(similarity_search(store,
                  queryLog[i].query, K, queryLog[i].filter)) = 0 }

\* C3: with the store present, no query raising and exactly one of the N labels
\* matching no entry, the result is N non-empty segments in label order: the
\* not-found placeholder for the unmatched label, and for every other label
\* its hits as titled blocks in the order the hits were returned.
C3_SegmentsInLabelOrder ==
    (Completed /\ raised = {} /\ Cardinality(Unmatched) = 1) =>
        /\ \A i \in 1..Len(selected_texts) :
              /\ CleanSegment(i) # <<>>
              /\ i \in Unmatched <=> CleanSegment(i)[1].kind = "notfound"
              /\ i \notin Unmatched =>
                    \A j \in 1..Len(CleanSegment(i)) : CleanSegment(i)[j].kind = "hit"
        /\ retrieved = ConcatSegs([i \in 1..Len(selected_texts) |-> CleanSegment(i)],
                                  Len(selected_texts))

\* a label with two hits followed by the unmatched label
C3_Witness ==
    /\ Completed
    /\ raised = {}
    /\ Len(selected_texts) >= 2
    /\ Unmatched = {2}
    /\ Len(retrieved) = 3

\* the keyword as stated: the whole remainder after the first " - ", or the
\* label itself when it holds no " - "
RECURSIVE AfterFirstSeparator(_, _)
AfterFirstSeparator(item, i) ==
    IF i + 2 > Len(item) THEN item
    ELSE IF SubSeq(item, i, i + 2) = <<" ", "-", " ">> THEN SubSeq(item, i + 3, Len(item))
    ELSE AfterFirstSeparator(item, i + 1)

\* C4: the keyword used as query text and as title filter is the label's whole
\* remainder after its first " - ", or the label verbatim without one.
C4_KeywordIsRemainder ==
    Completed =>
        \A i \in 1..Len(selected_texts) :
            /\ queryLog[i].query = AfterFirstSeparator(selected_texts[i], 1)
            /\ queryLog[i].filter = AfterFirstSeparator(selected_texts[i], 1)

\* ------------------------------------------------------------------------
\* Claims on the generator's construction
\* ------------------------------------------------------------------------
\* C7: with the primary (OpenRouter) key set, the client gets that key, the
\* primary base URL and the primary model setting; with it absent and the
\* secondary (OpenAI) key set, the client gets the secondary key and no base
\* URL, whatever the primary base URL is; with neither set, construction raises
\* and no client is created.
C7_CredentialResolution ==
    chainState # "none" =>
        /\ Truthy(env.OPENROUTER_API_KEY) =>
              /\ chainState = "built"
              /\ llm.api_key = env.OPENROUTER_API_KEY
              /\ llm.base_url = env.OPENROUTER_BASE_URL
              /\ Truthy(env.OPENROUTER_MODEL) => llm.model = env.OPENROUTER_MODEL
        /\ (~Truthy(env.OPENROUTER_API_KEY) /\ Truthy(env.OPENAI_API_KEY)) =>
              /\ chainState = "built"
              /\ llm.api_key = env.OPENAI_API_KEY
              /\ llm.base_url = None
        /\ (~Truthy(env.OPENROUTER_API_KEY) /\ ~Truthy(env.OPENAI_API_KEY)) =>
              /\ chainState = "raised"
              /\ llm = None

\* the fallback taken while a primary base URL is configured
C7_Witness ==
    /\ chainState = "built"
    /\ ~Truthy(env.OPENROUTER_API_KEY)
    /\ Truthy(env.OPENROUTER_BASE_URL)
    /\ llm.api_key = env.OPENAI_API_KEY

\* ------------------------------------------------------------------------
\* Claims on the normalization of the model's text
\* ------------------------------------------------------------------------
\* the interior of the first ```json fenced block, else of the first fenced
\* block, else the text
RECURSIVE IndexOf(_, _, _)
IndexOf(s, S, i) == IF i > Len(s) THEN 0 ELSE IF s[i] \in S THEN i ELSE IndexOf(s, S, i + 1)

RECURSIVE LastIndexOf(_, _, _)
LastIndexOf(s, S, i) == IF i = 0 THEN 0 ELSE IF s[i] \in S THEN i ELSE LastIndexOf(s, S, i - 1)

FenceInterior(s) ==
    LET open == IF IndexOf(s, {"J"}, 1) > 0 THEN IndexOf(s, {"J"}, 1)
                ELSE IndexOf(s, {"F"}, 1)
        close == IF open = 0 THEN 0 ELSE IndexOf(s, {"F"}, open + 1)
    IN  IF open = 0 THEN s
        ELSE SubSeq(s, open + 1, IF close = 0 THEN Len(s) ELSE close - 1)

\* from the first "{" to the last "}"
BraceSpan(s) ==
    LET first == IndexOf(s, {"{"}, 1)
        last == LastIndexOf(s, {"}"}, Len(s))
    IN  IF first = 0 \/ last = 0 THEN <<>> ELSE SubSeq(s, first, last)

\* the text holds one well-formed object: prose, at most one fenced block
\* around the object, and no brace outside it
HoldsOneObject(s) ==
    /\ JsonLoads(BraceSpan(FenceInterior(s)))
    /\ Cardinality({i \in 1..Len(s) : s[i] \in {"{", "}"}}) = Len(BraceSpan(FenceInterior(s)))
    /\ LET fences == {i \in 1..Len(s) : IsFence(s[i])}
       IN  \/ fences = {}
           \/ /\ Cardinality(fences) = 2
              /\ \E o, c \in fences :
                    /\ o < IndexOf(s, {"{"}, 1)
                    /\ LastIndexOf(s, {"}"}, Len(s)) < c
                    /\ s[c] = "F"

\* the fixed result {main_scope_text: "parse error", question_blocks: []}
Sentinel == [kind |-> "sentinel", value |-> <<>>]

\* C5: a text that is not parseable (no braces, unbalanced braces, invalid
\* syntax) never makes the normalization step raise: it yields the fixed
\* sentinel result, and the caller does not take its exception path.
C5_UnparseableGivesSentinel ==
    (parseState # "none" /\ ~JsonLoads(BraceSpan(FenceInterior(raw)))) =>
        /\ parseState = "returned"
        /\ response = Sentinel
        /\ callerPath = "render"

\* C6: a text holding one well-formed JSON object, fenced or not, with prose
\* before and after, is normalized to exactly that object.
C6_WrappedObjectExtracted ==
    (parseState # "none" /\ HoldsOneObject(raw)) =>
        /\ parseState = "returned"
        /\ response = Parsed(BraceSpan(FenceInterior(raw)))

\* ------------------------------------------------------------------------
\* Claims on the button's handler
\* ------------------------------------------------------------------------
Pipeline == <<"retrieve", "assemble", "generate", "normalize">>

IsPrefix(p, q) == Len(p) <= Len(q) /\ SubSeq(q, 1, Len(p)) = p

\* the stages of the pipeline among the events (the chain's construction and
\* the preview are not stages of it)
RECURSIVE PipelineStages(_)
PipelineStages(ev) ==
    IF ev = <<>> THEN <<>>
    ELSE (IF \E i \in 1..Len(Pipeline) : Pipeline[i] = Head(ev) THEN <<Head(ev)>> ELSE <<>>)
            \o PipelineStages(Tail(ev))

Started(stage) == \E i \in 1..Len(events) : events[i] = stage

\* C8: the stages of an accepted submission run in the order Retriever,
\* Prompt Assembler, Generator, Normalizer, each at most once; the model is
\* never called before retrieval has returned; a stage's exception ends the
\* submission with an error message shown, the failing stage being the last
\* one started (no retry, no later stage).
C8_StagesInOrder ==
    /\ IsPrefix(PipelineStages(events), Pipeline)
    /\ \A i, j \in 1..Len(events) : events[i] = events[j] => i = j
    /\ Started("generate") =>
          /\ Started("retrieve")
          /\ failed # "retrieve"
          /\ prompt_request.context = retrieved_context
    /\ failed # None <=> pc = "error"
    /\ pc = "error" =>
          /\ events # <<>>
          /\ events[Len(events)] = failed
          /\ messages # <<>>

\* the model call raised after retrieval and assembly
C8_Witness ==
    /\ pc = "error"
    /\ failed = "generate"
    /\ events = <<"construct", "retrieve", "assemble", "generate">>

\* C9: the submission is rejected, with no pipeline component invoked, exactly
\* when no label is selected, or every cell of the table is zero and the
\* custom instruction is empty or blank; every other submission enters the
\* pipeline.
C9_RejectedBeforePipeline ==
    LET noLabel == Len(multiselect) = 0
        allZero == \A c \in 1..NumCells : edited_df[c] = 0
        blank == \A i \in 1..Len(custom_requirements) : custom_requirements[i] = " "
        reject == noLabel \/ (allZero /\ blank)
    IN  pc # "idle" =>
          /\ reject <=> pc = "warned"
          /\ pc = "warned" =>
                /\ events = <<>>
                /\ messages # <<>>
                /\ retrieved_context = <<>>
                /\ model_text = <<>>
          /\ ~reject => (pc = "construct" \/ events[1] = "construct")

\* rejected for an all-zero table and a blank, non-empty instruction
C9_Witness ==
    /\ pc = "warned"
    /\ multiselect # <<>>
    /\ custom_requirements = <<" ", " ">>

\* ------------------------------------------------------------------------
\* Claims on the index build
\* ------------------------------------------------------------------------
IndexExists == db # "absent"

\* C10: build_database touches an existing index only after at least one
\* document has been read and split; with the source directory missing or no
\* document read the index is left as it was; when the deletion fails the
\* build returns without creating an index; and an index is created only from
\* a state in which the index directory does not exist.
C10_IndexReplacedOnlyWithDocuments ==
    [][ /\ (IndexExists /\ db' # db) => (documents # <<>> /\ splits >= 0)
        /\ (~base_exists \/ LoadAll(kb_files) = <<>>) => db' = db
        /\ (bpc = "clean" /\ IndexExists /\ db' # "absent") =>
              (bpc' = "done" /\ db' # "new")
        /\ db' = "new" => db = "absent"
        /\ bpc \in {"done", "crashed"} => UNCHANGED buildVars
      ]_vars

\* the old index gone and the new one written
C10_Witness == bpc = "done" /\ db = "new" /\ Len(documents) >= 2

=============================================================================
